---- MODULE Spec2Model ----
(***************************************************************************)
(* ClauseInsight query pipeline (app/api/query.py, app/rag/generator.py,   *)
(* app/rag/vector_store.py): retrieval, reranking, context aggregation,    *)
(* generation, empty-answer retries and confidence scoring.                *)
(*                                                                         *)
(* Texts are TLA+ strings and the Python string operations are computed    *)
(* character by character.  Similarities, bonuses and combined scores are *)
(* exact decimals, held as integers in units of 0.0001.                    *)
(***************************************************************************)
EXTENDS Integers, Sequences, FiniteSets, TLC

(***************************************************************************)
(* Python string primitives                                                *)
(***************************************************************************)

\* s[i] for a 1-based position.
Ch(s, i) == SubSeq(s, i, i)

\* str.isspace() for one character.
IsSpace(c) == c \in {" ", "\n", "\t"}

UpperLetters == <<"A","B","C","D","E","F","G","H","I","J","K","L","M",
                  "N","O","P","Q","R","S","T","U","V","W","X","Y","Z">>

LowerLetters == <<"a","b","c","d","e","f","g","h","i","j","k","l","m",
                  "n","o","p","q","r","s","t","u","v","w","x","y","z">>

IsUpperChar(c) == \E k \in 1..26 : UpperLetters[k] = c

IsLowerChar(c) == \E k \in 1..26 : LowerLetters[k] = c

LowerChar(c) ==
    IF IsUpperChar(c)
    THEN LowerLetters[CHOOSE k \in 1..26 : UpperLetters[k] = c]
    ELSE c

UpperChar(c) ==
    IF IsLowerChar(c)
    THEN UpperLetters[CHOOSE k \in 1..26 : LowerLetters[k] = c]
    ELSE c

RECURSIVE Lower(_)
\* str.lower()
Lower(s) ==
    IF Len(s) = 0 THEN s
    ELSE IF Len(s) = 1 THEN LowerChar(s)
    ELSE LET h == Len(s) \div 2
         IN  Lower(SubSeq(s, 1, h)) \o Lower(SubSeq(s, h + 1, Len(s)))

RECURSIVE Upper(_)
\* str.upper()
Upper(s) ==
    IF Len(s) = 0 THEN s
    ELSE IF Len(s) = 1 THEN UpperChar(s)
    ELSE LET h == Len(s) \div 2
         IN  Upper(SubSeq(s, 1, h)) \o Upper(SubSeq(s, h + 1, Len(s)))

IsDigit(c) == c \in {"0", "1", "2", "3", "4", "5", "6", "7", "8", "9"}

IsLetter(c) == IsUpperChar(c) \/ IsLowerChar(c)

\* A character of the class \w of a regular expression.
IsWordChar(c) == IsLetter(c) \/ IsDigit(c) \/ c = "_"

\* \b after the 1-based position e of s: a word character on one side only.
WordBoundaryAfter(s, e) ==
    LET left  == e >= 1 /\ IsWordChar(Ch(s, e))
        right == e < Len(s) /\ IsWordChar(Ch(s, e + 1))
    IN  left # right

\* str.isupper(): some cased character, and no lower-case one.
IsUpperStr(s) ==
    /\ \E i \in 1..Len(s) : IsUpperChar(Ch(s, i))
    /\ \A i \in 1..Len(s) : ~IsLowerChar(Ch(s, i))

RECURSIVE TitleAfter(_, _)
\* str.title() of s, when the character before s is a letter or is not.
TitleAfter(s, after_letter) ==
    IF Len(s) = 0 THEN s
    ELSE IF Len(s) = 1 THEN (IF after_letter THEN LowerChar(s) ELSE UpperChar(s))
    ELSE LET h == Len(s) \div 2
         IN  TitleAfter(SubSeq(s, 1, h), after_letter)
                \o TitleAfter(SubSeq(s, h + 1, Len(s)), IsLetter(Ch(s, h)))

\* str.title()
Title(s) == TitleAfter(s, FALSE)

RECURSIVE SplitOn(_, _)
\* s.split(sep) for a separator of one character: empty pieces are kept.
SplitOn(s, sep) ==
    LET at == {i \in 1..Len(s) : Ch(s, i) = sep}
        p  == CHOOSE i \in at : \A j \in at : i <= j
    IN  IF at = {} THEN <<s>>
        ELSE <<SubSeq(s, 1, p - 1)>> \o SplitOn(SubSeq(s, p + 1, Len(s)), sep)

\* The least and the greatest element of a non-empty set of integers.
Least(S) == CHOOSE x \in S : \A y \in S : x <= y

Greatest(S) == CHOOSE x \in S : \A y \in S : x >= y

\* `sub in s`
In(sub, s) ==
    \E i \in 1..(Len(s) - Len(sub) + 1) : SubSeq(s, i, i + Len(sub) - 1) = sub

\* any(p in s for p in phrases)
AnyIn(phrases, s) == \E p \in phrases : In(p, s)

\* s.startswith(prefix)
StartsWith(s, prefix) ==
    Len(s) >= Len(prefix) /\ SubSeq(s, 1, Len(prefix)) = prefix

\* s.endswith(suffix)
EndsWith(s, suffix) ==
    Len(s) >= Len(suffix) /\ SubSeq(s, Len(s) - Len(suffix) + 1, Len(s)) = suffix

\* s[:n]
Prefix(s, n) == IF Len(s) > n THEN SubSeq(s, 1, n) ELSE s

RECURSIVE Split(_)
\* s.split(): the maximal runs of non-space characters, in order.  The text
\* is cut at a space next to its middle and the two sides are split in turn.
Split(s) ==
    LET n      == Len(s)
        mid    == (n + 1) \div 2
        right  == {i \in mid..n : IsSpace(Ch(s, i))}
        left   == {i \in 1..(mid - 1) : IsSpace(Ch(s, i))}
        spaces == IF right # {} THEN right ELSE left
        p      == CHOOSE i \in spaces : \A j \in spaces : i <= j
    IN  IF n = 0 THEN <<>>
        ELSE IF spaces = {} THEN <<s>>
        ELSE Split(SubSeq(s, 1, p - 1)) \o Split(SubSeq(s, p + 1, n))

\* set(s.split())
WordSet(s) == LET words == Split(s) IN {words[k] : k \in 1..Len(words)}

RECURSIVE Join(_, _)
\* sep.join(parts)
Join(sep, parts) ==
    IF Len(parts) = 0 THEN ""
    ELSE IF Len(parts) = 1 THEN parts[1]
    ELSE parts[1] \o sep \o Join(sep, Tail(parts))

\* seq[:n] for a list.
Take(seq, n) == IF Len(seq) > n THEN SubSeq(seq, 1, n) ELSE seq

Min(a, b) == IF a < b THEN a ELSE b

Max(a, b) == IF a > b THEN a ELSE b

(***************************************************************************)
(* The documents, queries and generated texts the model draws from         *)
(***************************************************************************)

ChunkTermination ==
    "TERMINATION. Either party may terminate this agreement with 30 days no"
    \o "tice."

ChunkOverview ==
    "CASE OVERVIEW\nThis summary concerns the dispute between the company a"
    \o "nd the commission. During the first visit in May the commission record"
    \o "ed that the company stored waste without a permit. The company argued "
    \o "that the permit was pending. The commission contended that temporary s"
    \o "torage still constitutes a breach of the agreement, and that the compa"
    \o "ny was defined as the responsible party."

ChunkPayment ==
    "12.2 PAYMENT AND NOTICE\nThe company shall pay the commission a fee wi"
    \o "thin 30 days of each invoice. Late payment means any payment received "
    \o "after the due date. A party that disputes an invoice shall give NOTICE"
    \o ". The parties shall meet within ten days of that NOTICE. Liability for"
    \o " unpaid fees survives termination of the agreement, and interest is du"
    \o "e until the debt is paid."

ChunkConfidential ==
    "Article 7 Confidential information\nEach party shall keep confidential"
    \o " all information received from the other party in connection with this"
    \o " agreement. Confidential information refers to any data marked as conf"
    \o "idential. The obligation does not apply to information that is public."
    \o " A breach of this clause entitles the other party to seek an injunctio"
    \o "n, and the warranty lasts for five years."

QTerminate ==
    "How can this agreement be terminated?"

QCase ==
    "How was the company argument about the commission defined during the c"
    \o "ase overview"

QWeather ==
    "What is the weather today?"

RawGood ==
    "Either party may terminate this agreement with 30 days notice"

RawNotInContext ==
    "The context does not contain information about that."

RawPlaceholder ==
    "The document does not address [topic]"

RawNotMentioned ==
    "The first visit is described in the case file, but the date of the sec"
    \o "ond visit is not mentioned in the overview of the case"

RawUnclear ==
    "The company argument about the commission was defined during the first"
    \o " visit in May. The company argued that the permit was pending and that"
    \o " the storage was temporary, but it is unclear, and not mentioned in th"
    \o "e case overview, whether the commission recorded that argument."

RawGeneric ==
    "According to the document, it states nothing more than the context, as"
    \o " mentioned..."

RawDetailed ==
    "The company argument about the commission was defined during the first"
    \o " visit in May. The company argued that the permit was pending and that"
    \o " the storage was temporary, and the commission recorded that argument "
    \o "in the case overview."

RawSummary ==
    "  Either party may end the agreement. Notice is 30 days "

RawImpact ==
    "The party must plan for the notice period"

\* Python's None.
None == "None"

\* A chunk as the splitter produces it and the index stores it.
Chunk(text, source, page, chunk_id) ==
    [text |-> text, metadata |-> [source |-> source, page |-> page, chunk_id |-> chunk_id]]

\* The chunks of a one-chunk contract and of a two-chunk case file.
TerminationDoc == <<Chunk(ChunkTermination, "contract.pdf", 1, 0)>>

CaseDoc ==
    <<Chunk(ChunkOverview, "case.pdf", 1, 0),
      Chunk(ChunkPayment, "case.pdf", 1, 1)>>

\* The PDFs a client uploads, by file name, and a file that is no PDF.
PdfFiles == {"contract.pdf", "case.pdf"}

UploadedFiles == PdfFiles \cup {"notes.txt"}

\* What LegalDocumentLoader and LegalTextSplitter make of one PDF.
chunks_of(pdf_file) == IF pdf_file = "contract.pdf" THEN TerminationDoc ELSE CaseDoc

\* list(self.contracts_dir.glob("*.pdf")): the PDFs of the directory, in the
\* order the file system lists them.
glob_pdfs(dir) ==
    {order \in [1..Cardinality(dir) -> dir] :
        \A i, j \in 1..Cardinality(dir) : i # j => order[i] # order[j]}

RECURSIVE chunked_docs(_)
\* splitter.split_documents(loader.load_pdfs()): the chunks of every PDF of the
\* directory, file after file.
chunked_docs(pdf_files) ==
    IF pdf_files = <<>> THEN <<>>
    ELSE chunks_of(pdf_files[1]) \o chunked_docs(SubSeq(pdf_files, 2, Len(pdf_files)))

\* The chunk lists an index can be built from.
Documents ==
    {chunked_docs(order) : order \in UNION {glob_pdfs(dir) : dir \in (SUBSET PdfFiles) \ {{}}}}

Queries == {QTerminate, QCase, QWeather}

RawAnswers ==
    {RawGood, RawNotInContext, RawPlaceholder, RawNotMentioned, RawUnclear,
     RawGeneric, RawDetailed}

\* What the generation capability may return within one explanation.
LLMOutputs == [answer : RawAnswers, summary : {RawSummary}, impact : {RawImpact}]

\* The largest top_k a request asks for.
MaxTopK == 3

\* The similarities the index may report, in units of 0.0001: the inner products
\* of normalized embeddings, each of them exactly a float.
SimValues == {8750, 5000, 4990, -1250}

(***************************************************************************)
(* Evaluation caches.  Lower-casing and word-splitting a context of over a *)
(* thousand characters, and scanning a chunk for every phrase of the       *)
(* answerability rules, are computed once for the texts above; any other   *)
(* text is computed in place.                                              *)
(***************************************************************************)

ChunkTexts == UNION {{d[i].text : i \in 1..Len(d)} : d \in Documents}

\* The contexts query_clauses can build: up to three chunk texts of one
\* document, joined by a blank line.
ContextTexts ==
    UNION {{Join("\n\n", [i \in 1..Len(f) |-> d[f[i]].text]) :
                f \in UNION {[1..n -> 1..Len(d)] : n \in 1..3}} : d \in Documents}

\* A function with all its values computed, so that each is computed once.
Tabulated(f) == f @@ <<>>

ContextWordsTable == Tabulated([t \in ContextTexts |-> WordSet(Lower(t))])

\* set(context.lower().split())
ContextWords(context) ==
    IF context \in ContextTexts THEN ContextWordsTable[context]
    ELSE WordSet(Lower(context))

(***************************************************************************)
(* app/api/query.py: answerability scoring and reranking                   *)
(***************************************************************************)

\* Scores are held in units of 0.0001: 0.5 is 5000, a bonus of 0.3 is 3000.

\* [word for word in query_lower.split() if len(word) > 4]
query_keywords(query_lower) == SelectSeq(Split(query_lower), LAMBDA w : Len(w) > 4)

\* sum(1 for kw in query_keywords if kw in chunk_lower)
keyword_matches(query_lower, chunk_lower) ==
    Len(SelectSeq(query_keywords(query_lower), LAMBDA kw : In(kw, chunk_lower)))

calculate_answer_likelihood(chunk_text, query_str) ==
    LET query_lower == Lower(query_str)
        chunk_lower == Lower(chunk_text)
        definition ==
            IF /\ AnyIn({"define", "defined", "definition", "what is", "what constitutes"}, query_lower)
               /\ AnyIn({"represents", "means", "constitutes", "is defined as", "refers to"}, chunk_lower)
            THEN 3000 ELSE 0
        isArgument == AnyIn({"argument", "argued", "claimed", "contended", "defense"}, query_lower)
        company ==
            IF isArgument /\ In("company", query_lower) /\ In("company", chunk_lower)
            THEN 2000 ELSE 0
        commission ==
            IF isArgument /\ In("commission", query_lower) /\ In("commission", chunk_lower)
            THEN 2000 ELSE 0
        timeline ==
            IF /\ AnyIn({"visit", "during", "when", "actions", "first", "second"}, query_lower)
               /\ AnyIn({"visit", "date:", "may", "june", "first", "second"}, chunk_lower)
            THEN 2500 ELSE 0
        howWhy ==
            IF /\ StartsWith(query_lower, "how") \/ StartsWith(query_lower, "why")
               /\ Len(chunk_text) > 500
            THEN 1000 ELSE 0
        summary ==
            IF /\ AnyIn({"summary", "about", "overview", "case"}, query_lower)
               /\ AnyIn({"overview", "introduction", "summary", "concern"}, chunk_lower)
            THEN 2000 ELSE 0
        keywords == Min(3000, keyword_matches(query_lower, chunk_lower) * 1000)
    IN  definition + company + commission + timeline + howWhy + summary + keywords

AnswerLikelihoodTable ==
    Tabulated([k \in ChunkTexts \X Queries |-> calculate_answer_likelihood(k[1], k[2])])

\* calculate_answer_likelihood(result['text'], query), as rerank_by_answerability calls it.
answer_likelihood(chunk_text, query_str) ==
    IF chunk_text \in ChunkTexts /\ query_str \in Queries
    THEN AnswerLikelihoodTable[<<chunk_text, query_str>>]
    ELSE calculate_answer_likelihood(chunk_text, query_str)

\* The weights of the two scores exchanged: a combination the score property
\* must tell from final_score.
final_score_swapped(embedding_score, answer_bonus) ==
    (3 * embedding_score + 7 * answer_bonus) \div 10

\* final_score = (embedding_score * 0.7) + (answer_bonus * 0.3)
final_score(embedding_score, answer_bonus) ==
    (7 * embedding_score + 3 * answer_bonus) \div 10

\* The dict appended to reranked for one search result.
rerank_entry(result, query_str) ==
    LET answer_bonus == answer_likelihood(result.text, query_str)
    IN  [text           |-> result.text,
         metadata       |-> result.metadata,
         original_score |-> result.score,
         answer_bonus   |-> answer_bonus,
         score          |-> final_score(result.score, answer_bonus)]

\* An unstable insertion, which puts e before the elements of equal key: the
\* order property must tell it from sort_insert.
sort_insert_before_equals(sorted, e) ==
    LET p == Cardinality({i \in 1..Len(sorted) : sorted[i].score > e.score})
    IN  SubSeq(sorted, 1, p) \o <<e>> \o SubSeq(sorted, p + 1, Len(sorted))

\* The place list.sort(reverse=True) gives e in an already sorted list: after
\* every element whose key is not smaller (equal keys keep their order).
sort_insert(sorted, e) ==
    LET p == Cardinality({i \in 1..Len(sorted) : sorted[i].score >= e.score})
    IN  SubSeq(sorted, 1, p) \o <<e>> \o SubSeq(sorted, p + 1, Len(sorted))

RECURSIVE sort_by_score_desc(_)
\* reranked.sort(key=lambda x: x['score'], reverse=True)
sort_by_score_desc(list) ==
    IF Len(list) = 0 THEN <<>>
    ELSE sort_insert(sort_by_score_desc(SubSeq(list, 1, Len(list) - 1)), list[Len(list)])

rerank_by_answerability(results, query_str) ==
    sort_by_score_desc([i \in 1..Len(results) |-> rerank_entry(results[i], query_str)])

empty_phrases ==
    {"does not contain", "not contain information", "context does not",
     "does not address", "not specified", "not mentioned", "no information",
     "[topic]", "[specific aspect"}

\* The length test with the bound included: the property of short answers
\* must tell it from is_empty_answer.
is_empty_answer_upto_150(explanation) ==
    AnyIn(empty_phrases, Lower(explanation.meaning)) /\ Len(explanation.meaning) <= 150

\* The phrase test without the length test: the detector property must tell it
\* from is_empty_answer.
is_empty_answer_any_length(explanation) ==
    AnyIn(empty_phrases, Lower(explanation.meaning))

is_empty_answer(explanation) ==
    LET meaning == Lower(explanation.meaning)
        has_empty_phrase == AnyIn(empty_phrases, meaning)
        is_short == Len(meaning) < 150
    IN  has_empty_phrase /\ is_short

(***************************************************************************)
(* app/rag/generator.py: LegalResponseGenerator                            *)
(***************************************************************************)

\* s.strip()
Strip(s) ==
    LET n == Len(s)
        keep(i) == ~IsSpace(Ch(s, i))
    IN  IF \A i \in 1..n : ~keep(i) THEN ""
        ELSE SubSeq(s, CHOOSE i \in 1..n : keep(i) /\ \A j \in 1..(i - 1) : ~keep(j),
                       CHOOSE i \in 1..n : keep(i) /\ \A j \in (i + 1)..n : ~keep(j))

\* s.rfind(c): the last 0-based index of c, or -1.
RFind(s, c) ==
    LET n == Len(s)
    IN  IF \A i \in 1..n : Ch(s, i) # c THEN -1
        ELSE (CHOOSE i \in 1..n : Ch(s, i) = c /\ \A j \in (i + 1)..n : Ch(s, j) # c) - 1

\* s.capitalize()
Capitalize(s) ==
    IF Len(s) = 0 THEN s ELSE Upper(Ch(s, 1)) \o Lower(SubSeq(s, 2, Len(s)))

\* The cut made when the last punctuation mark is at the middle of the text
\* or after it: the property of the completed sentence must tell it from
\* _ensure_complete_sentence.
_ensure_complete_sentence_from_middle(text) ==
    IF Len(text) = 0 THEN text
    ELSE IF Ch(text, Len(text)) \in {".", "!", "?"} THEN text
    ELSE LET last_punct == Max(RFind(text, "."), Max(RFind(text, "!"), RFind(text, "?")))
         IN  IF 2 * last_punct >= Len(text)
             THEN SubSeq(text, 1, last_punct + 1)
             ELSE text \o "."

_ensure_complete_sentence(text) ==
    IF Len(text) = 0 THEN text
    ELSE IF Ch(text, Len(text)) \in {".", "!", "?"} THEN text
    ELSE LET last_period      == RFind(text, ".")
             last_exclamation == RFind(text, "!")
             last_question    == RFind(text, "?")
             last_punct == Max(last_period, Max(last_exclamation, last_question))
         IN  \* last_punct > len(text) * 0.5
             IF 2 * last_punct > Len(text)
             THEN SubSeq(text, 1, last_punct + 1)
             ELSE text \o "."

out_of_context_phrases ==
    {"i don't have", "i do not have", "not mentioned", "not specified",
     "not provided", "not contain", "does not contain", "no information",
     "cannot find", "not found", "not available", "context does not",
     "the context does not", "not in the context"}

_is_out_of_context_answer(answer) ==
    Len(answer) < 100 /\ AnyIn(out_of_context_phrases, Lower(answer))

\* The text the generator substitutes for an out-of-context answer.
NoInformationText == "I don't have information about that in this document."

uncertainty_phrases ==
    {"not contain", "does not specify", "unclear", "not mentioned",
     "not provided", "no information"}

generic_phrases ==
    <<"the context", "the document", "it states", "according to", "as mentioned">>

\* Rules 1 to 7 of _calculate_honest_confidence, each a step [score, reasons]
\* applied to the running score and reasons list.
confidence_grounding(st, answer_words, context_words) ==
    LET inter == Cardinality(answer_words \cap context_words)
        total == Max(Cardinality(answer_words), 1)
    IN  IF 10 * inter > 5 * total
        THEN [score |-> st.score + 20, reasons |-> Append(st.reasons, "strongly grounded in context")]
        ELSE IF 10 * inter > 3 * total
        THEN [score |-> st.score + 10, reasons |-> Append(st.reasons, "moderately grounded in context")]
        ELSE IF 100 * inter > 15 * total
        THEN [score |-> st.score + 5, reasons |-> Append(st.reasons, "weakly grounded in context")]
        ELSE [score |-> st.score - 10, reasons |-> Append(st.reasons, "limited context grounding")]

confidence_relevance(st, query_words, answer_words) ==
    LET query_words_clean ==
            query_words \ {"what", "is", "the", "a", "an", "how", "why", "when", "where", "did"}
        inter == Cardinality(query_words_clean \cap answer_words)
        total == Max(Cardinality(query_words_clean), 1)
    IN  IF 10 * inter > 6 * total
        THEN [score |-> st.score + 10, reasons |-> Append(st.reasons, "directly addresses query")]
        ELSE IF 10 * inter > 3 * total
        THEN [score |-> st.score + 5, reasons |-> st.reasons]
        ELSE [score |-> st.score - 5, reasons |-> Append(st.reasons, "may not fully address query")]

confidence_specificity(st, answer) ==
    LET generic_count ==
            Cardinality({k \in 1..Len(generic_phrases) : In(generic_phrases[k], Lower(answer))})
    IN  IF generic_count > 2
        THEN [score |-> st.score - 10, reasons |-> Append(st.reasons, "contains generic phrasing")]
        ELSE st

confidence_completeness(st, query_str, answer) ==
    LET query_complexity == Len(Split(query_str))
        answer_length == Len(answer)
    IN  IF query_complexity > 10 /\ answer_length > 200
        THEN [score |-> st.score + 10,
              reasons |-> Append(st.reasons, "comprehensive answer for complex query")]
        ELSE IF query_complexity > 10 /\ answer_length < 100
        THEN [score |-> st.score - 15,
              reasons |-> Append(st.reasons, "brief answer for complex question")]
        ELSE IF query_complexity <= 5 /\ answer_length > 150
        THEN [score |-> st.score + 5, reasons |-> Append(st.reasons, "detailed answer")]
        ELSE st

confidence_uncertainty(st, answer) ==
    IF AnyIn(uncertainty_phrases, Lower(answer))
    THEN [score |-> Min(st.score, 55),
          reasons |-> Append(st.reasons, "information not found in context")]
    ELSE st

confidence_context_quality(st, context) ==
    IF Len(context) > 1500
    THEN [score |-> st.score + 8, reasons |-> Append(st.reasons, "substantial context")]
    ELSE IF Len(context) > 800
    THEN [score |-> st.score + 4, reasons |-> st.reasons]
    ELSE IF Len(context) < 300
    THEN [score |-> st.score - 5, reasons |-> Append(st.reasons, "limited context")]
    ELSE st

confidence_truncation(st, answer) ==
    IF EndsWith(answer, "...") \/ EndsWith(answer, "etc") \/ EndsWith(answer, "and more")
    THEN [score |-> st.score - 5, reasons |-> Append(st.reasons, "answer may be incomplete")]
    ELSE st

\* The score after rules 1 to 7, before the final clamp, with the reasons.
confidence_rules(query_str, context, answer) ==
    LET query_words   == WordSet(Lower(query_str))
        answer_words  == WordSet(Lower(answer))
        context_words == ContextWords(context)
        s0 == [score |-> 60, reasons |-> <<>>]
        s1 == confidence_grounding(s0, answer_words, context_words)
        s2 == confidence_relevance(s1, query_words, answer_words)
        s3 == confidence_specificity(s2, answer)
        s4 == confidence_completeness(s3, query_str, answer)
        s5 == confidence_uncertainty(s4, answer)
        s6 == confidence_context_quality(s5, context)
        s7 == confidence_truncation(s6, answer)
    IN  s7

\* No clamp at all: the range property must tell it from confidence_clamp.
confidence_unclamped(score) == score

\* max(35, min(95, score))
confidence_clamp(score) == Max(35, Min(95, score))

confidence_reason(reasons) ==
    LET main_reason == IF Len(reasons) > 0 THEN reasons[1] ELSE "standard response quality"
    IN  IF Len(reasons) > 1
        THEN Capitalize(main_reason) \o " (" \o Join(", ", SubSeq(reasons, 2, Min(3, Len(reasons)))) \o ")"
        ELSE Capitalize(main_reason)

\* return score, reason
confidence_result(st) == <<confidence_clamp(st.score), confidence_reason(st.reasons)>>

\* Returns <<score, reason>>.
_calculate_honest_confidence(query_str, context, answer) ==
    confidence_result(confidence_rules(query_str, context, answer))

\* The three texts the generation capability returns within one call of
\* generate_structured_explanation: out.answer, out.summary, out.impact.
impact_words == {"impact", "affect", "consequence", "mean", "result", "happen"}

\* The context budget without its floor of 400 characters: the property of the
\* main prompt's context must tell it from max_context_chars.
max_context_chars_no_floor(query_str) == 2000 - (350 + Len(query_str))

\* max(400, max_total_chars - prompt_overhead)
max_context_chars(query_str) == Max(400, 2000 - (350 + Len(query_str)))

\* The whole context whatever its length: the property of the prompts' contexts
\* must tell it from context_to_use.
context_to_use_untruncated(query_str, clause_text) == clause_text

\* context_to_use: clause_text[:max_context_chars] when the text is longer than
\* max_context_chars, clause_text otherwise.
context_to_use(query_str, clause_text) ==
    IF Len(clause_text) > max_context_chars(query_str)
    THEN SubSeq(clause_text, 1, max_context_chars(query_str))
    ELSE clause_text

\* A prompt, as the template that is filled and the two texts it embeds.
main_prompt(query_str, clause_text) ==
    [prompt |-> "main", query |-> query_str,
     context |-> context_to_use(query_str, clause_text)]

summary_prompt(query_str, clause_text) ==
    [prompt |-> "summary", query |-> query_str,
     context |-> context_to_use(query_str, clause_text)]

\* The impact prompt embeds clause_text[:1000] and not the query.
impact_prompt(clause_text) ==
    [prompt |-> "impact", query |-> "", context |-> Prefix(clause_text, 1000)]

\* The prompts one call of generate_structured_explanation sends to
\* self.generator, in order: the main prompt, the summary prompt unless the
\* answer was out of context, the impact prompt when the query asks for it.
prompts_sent(query_str, clause_text, out) ==
    LET generated == _ensure_complete_sentence(Strip(out.answer))
    IN  <<main_prompt(query_str, clause_text)>>
        \o (IF _is_out_of_context_answer(generated) THEN <<>>
            ELSE <<summary_prompt(query_str, clause_text)>>)
        \o (IF AnyIn(impact_words, Lower(query_str))
            THEN <<impact_prompt(clause_text)>> ELSE <<>>)

\* The explanation dictionary; conf is the pair _calculate_honest_confidence returns.
RECURSIVE UpperRun(_, _)
\* The length of the run of upper-case letters of s that starts at position p.
UpperRun(s, p) ==
    IF p <= Len(s) /\ IsUpperChar(Ch(s, p)) THEN 1 + UpperRun(s, p + 1) ELSE 0

RECURSIVE UpperOrSpaceRun(_, _)
\* The length of the run of upper-case letters and spaces that starts at p.
UpperOrSpaceRun(s, p) ==
    IF p <= Len(s) /\ (IsUpperChar(Ch(s, p)) \/ IsSpace(Ch(s, p)))
    THEN 1 + UpperOrSpaceRun(s, p + 1) ELSE 0

\* Where the match of \b[A-Z]{2,}[A-Z\s]{0,20}\b that starts at p ends, or 0
\* when none starts there.  The greedy match takes the whole upper-case run,
\* then up to 20 more characters of the class, and gives characters back
\* until a word boundary follows.
caps_match_end(s, p) ==
    LET run  == UpperRun(s, p)
        more == Min(20, UpperOrSpaceRun(s, p + run))
        ends == {e \in (p + run - 1)..(p + run + more - 1) : WordBoundaryAfter(s, e)}
    IN  IF run < 2 \/ ends = {} THEN 0 ELSE Greatest(ends)

\* The positions a match can start at: an upper-case letter after a word
\* boundary, followed by another.
caps_starts(s) ==
    {p \in 1..(Len(s) - 1) :
        /\ IsUpperChar(Ch(s, p))
        /\ IsUpperChar(Ch(s, p + 1))
        /\ (p = 1 \/ ~IsWordChar(Ch(s, p - 1)))}

RECURSIVE caps_scan(_, _, _)
\* re.findall(caps_pattern, text), from position `from` on: the matches from
\* left to right, none overlapping the one before.
caps_scan(s, starts, from) ==
    LET here == {p \in starts : p >= from}
        p    == Least(here)
        e    == caps_match_end(s, p)
    IN  IF here = {} THEN <<>>
        ELSE IF e = 0 THEN caps_scan(s, starts, p + 1)
        ELSE <<SubSeq(s, p, e)>> \o caps_scan(s, starts, e + 1)

caps_findall(text) == caps_scan(text, caps_starts(text), 1)

InList(x, list) == \E i \in 1..Len(list) : list[i] = x

RECURSIVE add_caps_terms(_, _)
\* for term in caps_terms[:4]: ... legal_terms.append(term.title())
add_caps_terms(legal_terms, caps_terms) ==
    IF Len(caps_terms) = 0 THEN legal_terms
    ELSE LET term == Head(caps_terms)
         IN  add_caps_terms(IF Len(Strip(term)) > 2 /\ ~InList(term, legal_terms)
                            THEN Append(legal_terms, Title(term))
                            ELSE legal_terms,
                            Tail(caps_terms))

legal_keywords ==
    <<"agreement", "party", "parties", "termination", "notice", "confidential",
      "liability", "indemnify", "breach", "obligation", "payment", "warranty",
      "representation", "dispute">>

RECURSIVE add_keywords(_, _, _)
\* for keyword in keywords: ... legal_terms.append(keyword.title())
add_keywords(legal_terms, keywords, text_lower) ==
    IF Len(keywords) = 0 THEN legal_terms
    ELSE LET keyword == Head(keywords)
         IN  add_keywords(IF /\ In(keyword, text_lower)
                             /\ ~InList(Title(keyword), legal_terms)
                             /\ Len(legal_terms) < 6
                          THEN Append(legal_terms, Title(keyword))
                          ELSE legal_terms,
                          Tail(keywords), text_lower)

_extract_key_terms(text) ==
    LET legal_terms == add_keywords(add_caps_terms(<<>>, Take(caps_findall(text), 4)),
                                    legal_keywords, Lower(text))
    IN  IF Len(legal_terms) > 0 THEN Take(legal_terms, 6)
        ELSE <<"Contract", "Agreement", "Clause">>

KeyTermsTable == Tabulated([t \in ContextTexts |-> _extract_key_terms(t)])

\* self._extract_key_terms(clause_text), as generate_structured_explanation calls it.
key_terms(clause_text) == KeyTermsTable[clause_text]

explanation_dict(summary, answer, key_terms_shown, practical_impact, conf) ==
    [summary          |-> summary,
     meaning          |-> answer,
     favoredParty     |-> "N/A",
     keyTerms         |-> key_terms_shown,
     practicalImpact  |-> practical_impact,
     confidence       |-> conf[1],
     confidenceReason |-> conf[2]]

generate_structured_explanation(query_str, clause_text, metadata, out) ==
    LET generated == _ensure_complete_sentence(Strip(out.answer))
        substituted == _is_out_of_context_answer(generated)
        answer == IF substituted THEN NoInformationText ELSE generated
        summary == IF substituted THEN answer
                   ELSE _ensure_complete_sentence(Strip(out.summary))
        practical_impact ==
            IF AnyIn(impact_words, Lower(query_str))
            THEN _ensure_complete_sentence(Strip(out.impact))
            ELSE ""
    IN  explanation_dict(summary, answer, Take(key_terms(clause_text), 4), practical_impact,
                         _calculate_honest_confidence(query_str, clause_text, answer))

ExplanationTable ==
    Tabulated([k \in Queries \X ContextTexts \X LLMOutputs |->
                  generate_structured_explanation(k[1], k[2], None, k[3])])

\* generator.generate_structured_explanation(query=..., clause_text=..., metadata=...),
\* as query_clauses calls it, for the texts out the capability returns.  The
\* metadata argument is accepted and never read by the generator.
explain(q, clause_text, metadata, out) == ExplanationTable[<<q, clause_text, out>>]

\* The answer texts generate_structured_explanation can return here.
MeaningTexts ==
    {NoInformationText} \cup {_ensure_complete_sentence(Strip(r)) : r \in RawAnswers}

EmptyAnswerTable == Tabulated([m \in MeaningTexts |-> is_empty_answer([meaning |-> m])])

\* is_empty_answer(ai_explanation), as query_clauses calls it.
empty_answer(explanation) ==
    IF explanation.meaning \in MeaningTexts THEN EmptyAnswerTable[explanation.meaning]
    ELSE is_empty_answer(explanation)

\* extract_matched_terms: word.strip('.,!?;:')
StripPunct(word) ==
    LET n == Len(word)
        keep(i) == Ch(word, i) \notin {".", ",", "!", "?", ";", ":"}
    IN  IF \A i \in 1..n : ~keep(i) THEN ""
        ELSE SubSeq(word, CHOOSE i \in 1..n : keep(i) /\ \A j \in 1..(i - 1) : ~keep(j),
                          CHOOSE i \in 1..n : keep(i) /\ \A j \in (i + 1)..n : ~keep(j))

stopwords ==
    {"the", "a", "an", "and", "or", "but", "in", "on", "at", "to", "for",
     "of", "with", "by", "from", "is", "are", "was", "were", "what", "how",
     "when", "where", "which", "who", "about", "this", "that", "these", "those"}

extract_matched_terms(query_str, text) ==
    LET query_lower == Lower(query_str)
        text_lower  == Lower(text)
        kept == SelectSeq(Split(query_lower),
                          LAMBDA word : StripPunct(word) \notin stopwords /\ Len(word) > 2)
        query_words == [i \in 1..Len(kept) |-> StripPunct(kept[i])]
        matched == SelectSeq(query_words, LAMBDA word : In(word, text_lower))
    IN  IF Len(matched) = 0 THEN <<"contract", "clause", "legal">>
        ELSE Take(matched, 6)

MatchedTermsTable ==
    Tabulated([k \in Queries \X ChunkTexts |-> extract_matched_terms(k[1], k[2])])

\* extract_matched_terms(query, top_result["text"]), as query_clauses calls it.
matched_terms(q, text) ==
    IF q \in Queries /\ text \in ChunkTexts THEN MatchedTermsTable[<<q, text>>]
    ELSE extract_matched_terms(q, text)

(***************************************************************************)
(* app/api/document_analysis.py: deduplicate_items                         *)
(***************************************************************************)

\* The key in the letter case of the item: the property of the first
\* occurrences must tell it from dedup_key.
dedup_key_case_sensitive(item) == Strip(item)

\* key = item.lower().strip()
dedup_key(item) == Strip(Lower(item))

RECURSIVE dedup_from(_, _, _)
\* The loop of deduplicate_items over the items left, given the keys seen and
\* the items kept so far.
dedup_from(items, seen, deduplicated) ==
    IF Len(items) = 0 THEN deduplicated
    ELSE LET item == Head(items)
             key  == dedup_key(item)
         IN  IF key \notin seen /\ key # ""
             THEN dedup_from(Tail(items), seen \cup {key}, Append(deduplicated, item))
             ELSE dedup_from(Tail(items), seen, deduplicated)

deduplicate_items(items) == dedup_from(items, {}, <<>>)

(***************************************************************************)
(* app/rag/vector_store.py: LegalVectorStore                               *)
(***************************************************************************)

\* A file that does not exist.
NoFile == "NoFile"

\* load_index raises FileNotFoundError.
load_index_fails(index, meta) == index = NoFile \/ meta = NoFile

\* The score FAISS reports for a neighbour it did not find (label -1): the
\* lowest float, here a value below every similarity.
FaissMissingScore == -100000000

\* list[idx] with Python's negative indices.
PyIndex(list, idx) == IF idx >= 0 THEN list[idx + 1] ELSE list[Len(list) + idx + 1]

\* What self.index.search(query_embedding, top_k) may return for an index of
\* ntotal vectors: the found neighbours by descending score, then label -1.
FaissHits(ntotal, k) ==
    LET found == Min(k, ntotal)
        orders == {o \in [1..found -> 0..(ntotal - 1)] :
                        \A i, j \in 1..found : i # j => o[i] # o[j]}
        scores == {sc \in [1..found -> SimValues] :
                        \A i \in 1..(found - 1) : sc[i] >= sc[i + 1]}
    IN  {[i \in 1..k |-> IF i <= found
                         THEN [score |-> sc[i], idx |-> o[i]]
                         ELSE [score |-> FaissMissingScore, idx |-> -1]] :
            o \in orders, sc \in scores}

\* self.metadata[idx] raises IndexError for a label past the end of the list.
search_raises(metadata, hits) ==
    \E i \in 1..Len(hits) : hits[i].idx >= Len(metadata)

\* LegalVectorStore.search, given what FAISS returned.
search(metadata, hits) ==
    [i \in 1..Len(hits) |->
        [score    |-> hits[i].score,
         text     |-> PyIndex(metadata, hits[i].idx).text,
         metadata |-> PyIndex(metadata, hits[i].idx).metadata]]

(***************************************************************************)
(* app/api/query.py: query_clauses, and app/api/document.py                *)
(***************************************************************************)

VARIABLES
    index_file,        \* clauses.index on disk: the chunks whose embeddings it holds, or NoFile
    meta_file,         \* metadata.npy on disk: the chunks, or NoFile
    pc,                \* where the request being served stands
    query,             \* the request's query
    top_k,             \* the request's top_k
    search_results,    \* what vector_store.search returned
    reranked_results,  \* what rerank_by_answerability returned
    attempts,          \* the calls of generate_structured_explanation so far
    ai_explanation,    \* the explanation of the last attempt
    response,          \* what query_clauses returned
    calls,             \* the calls the request has made to its components, in order
    fn_call,           \* the last direct call of a helper: its name, argument and result
    contracts_dir,     \* data/contracts on disk: the names of the PDFs saved there
    upload,            \* where the upload being served stands, and its result
    loads,             \* the models the request being served has loaded, in order
    loaded             \* the models the requests before it have loaded

vars == <<index_file, meta_file, pc, query, top_k, search_results,
          reranked_results, attempts, ai_explanation, response, calls, fn_call,
          contracts_dir, upload, loads, loaded>>

pipeline_vars == <<index_file, meta_file, pc, query, top_k, search_results,
                   reranked_results, attempts, ai_explanation, response, calls,
                   contracts_dir, upload, loads, loaded>>

\* The index directory and the contracts directory.
disk_vars == <<index_file, meta_file, contracts_dir>>

\* No upload is being handled.
NoUpload ==
    [pc |-> "idle", pdf_file |-> "", chunked_docs |-> <<>>, chunks_created |-> 0,
     status_code |-> 0]

\* The models the requests so far have loaded, with those of the current one.
models_loaded(earlier, now) == earlier \cup {now[i] : i \in 1..Len(now)}

\* Every handler is an async def that awaits nothing before it is through with
\* the index, and the server runs one event loop: a handler starts when no
\* other is running.  this_pc is the position of the handler that starts,
\* other_pc the position of the other one.
event_loop_among_queries(this_pc, other_pc) == this_pc = "idle"

event_loop_free(this_pc, other_pc) == this_pc = "idle" /\ other_pc = "idle"

NoCall == [fn |-> "none", args |-> <<>>, result |-> <<>>]

request_vars == <<query, top_k, search_results, reranked_results, attempts,
                  ai_explanation, response, calls>>

\* What the /query endpoint answers when query_clauses raises: HTTP 500.
internal_error_response ==
    [status_code |-> 500, clause |-> None, explanation |-> None, relevance |-> None]

\* The no-index response with an empty clause in place of the null one: the
\* property of the missing index must tell it from not_indexed_response.
not_indexed_response_empty_clause ==
    [error       |-> "No documents have been indexed yet. Please upload a contract first.",
     clause      |-> "",
     explanation |-> None,
     relevance   |-> None]

not_indexed_response ==
    [error       |-> "No documents have been indexed yet. Please upload a contract first.",
     clause      |-> None,
     explanation |-> None,
     relevance   |-> None]

\* The no-results response with an empty explanation in place of the null
\* one: the property of the empty search must tell it from no_results_response.
no_results_response_empty_explanation ==
    [error       |-> "No relevant clauses found for your query.",
     clause      |-> None,
     explanation |-> "",
     relevance   |-> None]

no_results_response ==
    [error       |-> "No relevant clauses found for your query.",
     clause      |-> None,
     explanation |-> None,
     relevance   |-> None]

\* int(x * 100) for a score x held in units of 0.0001: truncation towards zero.
IntTimes100(x) == IF x >= 0 THEN x \div 100 ELSE -((-x) \div 100)

\* The gate at 0.4: the low-relevance property must tell it from low_relevance.
low_relevance_at_04(top_score) == top_score < 4000

\* top_score < 0.5
low_relevance(top_score) == top_score < 5000

low_relevance_response(top_score) ==
    [clause |->
        [title |-> "Information Not Available", section |-> "N/A", content |-> ""],
     explanation |->
        [summary          |-> NoInformationText,
         meaning          |-> NoInformationText,
         favoredParty     |-> "N/A",
         keyTerms         |-> <<>>,
         practicalImpact  |-> "",
         confidence       |-> 30,
         confidenceReason |-> "Query does not match document content"],
     relevance |->
        [score |-> IntTimes100(top_score), matchedTerms |-> <<>>]]

\* The reranked results each attempt builds its context from.
first_chunks(reranked) == Take(reranked, 3)

\* The second and third results instead of the first two: the narrowing property
\* must tell it from focused_chunks.
focused_chunks_shifted(reranked) == SubSeq(reranked, 2, Min(3, Len(reranked)))

focused_chunks(reranked) == Take(reranked, 2)

single_chunks(reranked) == Take(reranked, 1)

\* "\n\n".join([r['text'] for r in chunks])
context_of(chunks) == Join("\n\n", [i \in 1..Len(chunks) |-> chunks[i].text])

\* A retry whatever the answer is: the retry property must tell it from
\* retry_wanted.
retry_whenever_several(explanation, reranked) == Len(reranked) > 1

\* A retry for every flagged answer, however few the reranked results: the
\* first-attempt property must tell it from retry_wanted.
retry_on_any_flagged(explanation, reranked) == empty_answer(explanation)

\* if is_empty_answer(ai_explanation) and len(reranked_results) > 1
retry_wanted(explanation, reranked) ==
    empty_answer(explanation) /\ Len(reranked) > 1

\* One call of generator.generate_structured_explanation and what it was given.
attempt(stage, chunks, q, out) ==
    LET clause_text == context_of(chunks)
    IN  [stage          |-> stage,
         chunks         |-> chunks,
         clause_text    |-> clause_text,
         context_to_use |-> context_to_use(q, clause_text),
         explanation    |-> explain(q, clause_text, chunks[1].metadata, out)]

\* re.search(r'\d+\.\d+|\b[Aa]rticle\s+\d+', line): a period between two digits,
\* or the word Article, spaces and a digit.
has_section_number(line) ==
    \/ \E j \in 2..(Len(line) - 1) :
            Ch(line, j) = "." /\ IsDigit(Ch(line, j - 1)) /\ IsDigit(Ch(line, j + 1))
    \/ \E i \in 1..(Len(line) - 8) :
            /\ SubSeq(line, i, i + 6) \in {"Article", "article"}
            /\ (i = 1 \/ ~IsWordChar(Ch(line, i - 1)))
            /\ \E e \in (i + 8)..Len(line) :
                    /\ IsDigit(Ch(line, e))
                    /\ \A j \in (i + 7)..(e - 1) : IsSpace(Ch(line, j))

\* line.isupper() and len(line.split()) <= 10, for a stripped line
is_caps_title(line) == Len(line) > 0 /\ IsUpperStr(line) /\ Len(Split(line)) <= 10

\* The default title: the first line, cut to 100 characters and upper-cased.
default_title(text) ==
    LET first_line == Strip(SplitOn(text, "\n")[1])
        shown == IF Len(first_line) > 100
                 THEN SubSeq(first_line, 1, 100) \o "..." ELSE first_line
    IN  IF Len(first_line) > 0 THEN Upper(shown) ELSE "RETRIEVED CLAUSE"

\* The numbered section looked for on every line of the text: the priority
\* property of the title must tell it from extract_clause_info.
extract_clause_info_any_line(text) ==
    LET lines    == SplitOn(text, "\n")
        caps     == {i \in 1..Min(3, Len(lines)) : is_caps_title(Strip(lines[i]))}
        numbered == {i \in 1..Len(lines) : has_section_number(lines[i])}
    IN  IF caps # {}
        THEN [title |-> Strip(lines[Least(caps)]), section |-> "Article - Section"]
        ELSE IF numbered # {}
        THEN [title |-> Upper(Strip(lines[Least(numbered)])), section |-> "Section Detected"]
        ELSE [title |-> default_title(text), section |-> "Contract Clause"]

\* The default title left in the letter case of the text: the property of the
\* one-chunk index must tell it from extract_clause_info.
extract_clause_info_as_written(text) ==
    [title |-> Strip(SplitOn(text, "\n")[1]), section |-> "Contract Clause"]

extract_clause_info(text) ==
    LET lines    == Take(SplitOn(text, "\n"), 3)
        caps     == {i \in 1..Len(lines) : is_caps_title(Strip(lines[i]))}
        numbered == {i \in 1..Len(lines) : has_section_number(lines[i])}
    IN  IF caps # {}
        THEN [title |-> Strip(lines[Least(caps)]), section |-> "Article - Section"]
        ELSE IF numbered # {}
        THEN [title |-> Upper(Strip(lines[Least(numbered)])), section |-> "Section Detected"]
        ELSE [title |-> default_title(text), section |-> "Contract Clause"]

ClauseInfoTable == Tabulated([t \in ChunkTexts |-> extract_clause_info(t)])

\* extract_clause_info(top_result["text"]), as query_clauses calls it.
clause_info(text) == ClauseInfoTable[text]

\* Steps 8 to 10 of query_clauses: the response built from the best chunk and
\* the last explanation.
build_response(q, top_result, explanation) ==
    [clause |->
        [title   |-> clause_info(top_result.text).title,
         section |-> top_result.metadata.source \o " - Page "
                        \o ToString(top_result.metadata.page),
         content |-> top_result.text],
     explanation |-> explanation,
     relevance |->
        [score        |-> IntTimes100(top_result.original_score),
         matchedTerms |-> matched_terms(q, top_result.text)]]

Init ==
    /\ index_file = NoFile
    /\ meta_file = NoFile
    /\ pc = "idle"
    /\ query = None
    /\ top_k = 0
    /\ search_results = <<>>
    /\ reranked_results = <<>>
    /\ attempts = <<>>
    /\ ai_explanation = None
    /\ response = None
    /\ calls = <<>>
    /\ fn_call = NoCall
    /\ contracts_dir = {}
    /\ upload = NoUpload
    /\ loads = <<>>
    /\ loaded = {}

\* upload_document up to the call of process_and_index_document: a file that
\* is no PDF is refused with HTTP 400, a PDF is saved in the contracts
\* directory under its own name.
UploadDocument(filename) ==
    /\ event_loop_free(upload.pc, pc)
    /\ IF EndsWith(filename, ".pdf")
       THEN /\ contracts_dir' = contracts_dir \cup {filename}
            /\ upload' = [NoUpload EXCEPT !.pc = "saved", !.pdf_file = filename]
       ELSE /\ contracts_dir' = contracts_dir
            /\ upload' = [NoUpload EXCEPT !.pc = "done", !.pdf_file = filename,
                                          !.status_code = 400]
    /\ UNCHANGED <<index_file, meta_file, pc, request_vars, fn_call, loads, loaded>>

\* process_and_index_document up to faiss.write_index: the PDFs of the
\* contracts directory are loaded and chunked, the embedder is constructed, the
\* chunks are embedded and the index file is written.
WriteIndex ==
    /\ upload.pc = "saved"
    /\ \E pdf_files \in glob_pdfs(contracts_dir) :
        /\ index_file' = chunked_docs(pdf_files)
        /\ upload' = [upload EXCEPT !.pc = "index_written",
                                    !.chunked_docs = chunked_docs(pdf_files)]
    /\ loads' = Append(loads, "embedder")
    /\ UNCHANGED <<meta_file, contracts_dir, pc, request_vars, fn_call, loaded>>

\* np.save(self.meta_file, ...) and the way back: process_and_index_document
\* returns len(chunked_docs) and upload_document hands it on.
SaveMetadata ==
    /\ upload.pc = "index_written"
    /\ meta_file' = upload.chunked_docs
    /\ upload' = [upload EXCEPT !.pc = "done",
                                !.chunks_created = Len(upload.chunked_docs),
                                !.status_code = 200]
    /\ UNCHANGED <<index_file, contracts_dir, pc, request_vars, fn_call, loads, loaded>>

\* The upload is answered; its embedder is garbage.
UploadReturn ==
    /\ upload.pc = "done"
    /\ upload' = NoUpload
    /\ loaded' = models_loaded(loaded, loads)
    /\ loads' = <<>>
    /\ UNCHANGED <<disk_vars, pc, request_vars, fn_call>>

\* A request with top_k = 0 against an index that exists, on a FAISS build that
\* rejects k = 0: search raises and the endpoint answers HTTP 500.  (A build
\* that accepts k = 0 returns no neighbour: Retrieve with k = 0.)
SearchRaises(q) ==
    /\ event_loop_free(pc, upload.pc)
    /\ ~load_index_fails(index_file, meta_file)
    /\ query' = q
    /\ top_k' = 0
    /\ search_results' = <<>>
    /\ reranked_results' = <<>>
    /\ attempts' = <<>>
    /\ ai_explanation' = None
    /\ response' = internal_error_response
    /\ calls' = <<"load_index", "encode", "search", "raise">>
    /\ pc' = "done"
    /\ loads' = <<"embedder">>
    /\ UNCHANGED <<disk_vars, upload, loaded, fn_call>>

\* query_clauses up to the first generation call: load_index, embed, search,
\* the low-relevance gate and the reranking.
Retrieve(q, k) ==
    /\ event_loop_free(pc, upload.pc)
    /\ query' = q
    /\ top_k' = k
    /\ attempts' = <<>>
    /\ ai_explanation' = None
    /\ IF load_index_fails(index_file, meta_file)
       THEN /\ search_results' = <<>>
            /\ reranked_results' = <<>>
            /\ response' = not_indexed_response
            /\ calls' = <<"load_index">>
            /\ pc' = "done"
            /\ loads' = <<>>
       ELSE \E hits \in FaissHits(Len(index_file), k) :
            LET results == search(meta_file, hits)
            IN  /\ loads' = <<"embedder">>
                /\ search_results' = IF search_raises(meta_file, hits) THEN <<>> ELSE results
                /\ IF search_raises(meta_file, hits)
                   THEN /\ reranked_results' = <<>>
                        /\ response' = internal_error_response
                        /\ calls' = <<"load_index", "encode", "search", "raise">>
                        /\ pc' = "done"
                   ELSE IF Len(results) = 0
                   THEN /\ reranked_results' = <<>>
                        /\ response' = no_results_response
                        /\ calls' = <<"load_index", "encode", "search">>
                        /\ pc' = "done"
                   ELSE IF low_relevance(results[1].score)
                   THEN /\ reranked_results' = <<>>
                        /\ response' = low_relevance_response(results[1].score)
                        /\ calls' = <<"load_index", "encode", "search">>
                        /\ pc' = "done"
                   ELSE /\ reranked_results' = rerank_by_answerability(Take(results, k), q)
                        /\ response' = None
                        /\ calls' = <<"load_index", "encode", "search", "rerank">>
                        /\ pc' = "first"
    /\ UNCHANGED <<disk_vars, upload, loaded, fn_call>>

\* ai_explanation = generator.generate_structured_explanation(...): the call is
\* recorded, and the next step is the retry retry_stage when the answer is flagged
\* and there is more than one reranked result, the response otherwise.
Generated(a, retry_stage) ==
    /\ attempts' = Append(attempts, a)
    /\ calls' = Append(calls, "generate")
    /\ ai_explanation' = a.explanation
    /\ pc' = IF retry_wanted(a.explanation, reranked_results)
             THEN retry_stage ELSE "respond"
    /\ UNCHANGED <<disk_vars, upload, loaded, query, top_k, search_results,
                   reranked_results, response, fn_call>>

\* Step 6: a LegalResponseGenerator is constructed, its first call loads the
\* model, and the explanation is generated from the top-3 context.
FirstAttempt(out) ==
    /\ pc = "first"
    /\ loads' = Append(loads, "generator")
    /\ Generated(attempt("first", first_chunks(reranked_results), query, out), "narrowed")

\* Step 7: the retry with the top-2 context.
RetryNarrowed(out) ==
    /\ pc = "narrowed"
    /\ UNCHANGED loads
    /\ Generated(attempt("narrowed", focused_chunks(reranked_results), query, out), "single")

\* Step 7, second level: the retry with the best reranked chunk alone.
RetrySingle(out) ==
    /\ pc = "single"
    /\ UNCHANGED loads
    /\ Generated(attempt("single", single_chunks(reranked_results), query, out), "respond")

\* Steps 8 to 10: the response is assembled and returned.
Respond ==
    /\ pc = "respond"
    /\ response' = build_response(query, reranked_results[1], ai_explanation)
    /\ pc' = "done"
    /\ UNCHANGED <<disk_vars, upload, loads, loaded, query, top_k, search_results,
                   reranked_results, attempts, ai_explanation, calls, fn_call>>

\* A failed generation taken for an empty answer, with the retry or the
\* response that follows one: the property of generation failures must tell it
\* from GenerationRaises.
GenerationAbsorbed ==
    /\ pc \in {"first", "narrowed", "single"}
    /\ loads' = IF pc = "first" THEN Append(loads, "generator") ELSE loads
    /\ calls' = calls \o <<"generate", "raise">>
    /\ pc' = IF pc = "first" THEN "narrowed" ELSE "single"
    /\ UNCHANGED <<disk_vars, upload, loaded, query, top_k, search_results,
                   reranked_results, attempts, ai_explanation, response, fn_call>>

\* The model load or a call of self.generator raises in one of the attempts:
\* query_clauses catches nothing, and the except of query_document answers
\* HTTP 500.
GenerationRaises ==
    /\ pc \in {"first", "narrowed", "single"}
    /\ loads' = IF pc = "first" THEN Append(loads, "generator") ELSE loads
    /\ calls' = calls \o <<"generate", "raise">>
    /\ response' = internal_error_response
    /\ pc' = "done"
    /\ UNCHANGED <<disk_vars, upload, loaded, query, top_k, search_results,
                   reranked_results, attempts, ai_explanation, fn_call>>

\* The request is over; its locals are gone and the next request can start.
Return ==
    /\ pc = "done"
    /\ pc' = "idle"
    /\ query' = None
    /\ top_k' = 0
    /\ search_results' = <<>>
    /\ reranked_results' = <<>>
    /\ attempts' = <<>>
    /\ ai_explanation' = None
    /\ response' = None
    /\ calls' = <<>>
    /\ loaded' = models_loaded(loaded, loads)
    /\ loads' = <<>>
    /\ UNCHANGED <<disk_vars, upload, fn_call>>

Next ==
    \/ \E filename \in UploadedFiles : UploadDocument(filename)
    \/ WriteIndex
    \/ SaveMetadata
    \/ UploadReturn
    \/ \E q \in Queries, k \in 0..MaxTopK : Retrieve(q, k)
    \/ \E q \in Queries : SearchRaises(q)
    \/ \E out \in LLMOutputs : FirstAttempt(out)
    \/ \E out \in LLMOutputs : RetryNarrowed(out)
    \/ \E out \in LLMOutputs : RetrySingle(out)
    \/ Respond
    \/ GenerationRaises
    \/ Return

Spec == Init /\ [][Next]_vars

(***************************************************************************)
(* The helpers called on their own, on arguments drawn from bounded sets   *)
(***************************************************************************)

\* The longest answer the detector is called on.
MaxAnswerLen == 300

FillerSentence == " The tenant pays the rent on the first day of each month."

RECURSIVE PadTo(_, _)
\* s, lengthened with filler sentences to exactly n characters.
PadTo(s, n) ==
    IF Len(s) >= n THEN SubSeq(s, 1, n) ELSE PadTo(s \o FillerSentence, n)

AnswerStems ==
    {"Not mentioned in this document.",
     "The late fee is not mentioned in the schedule.",
     "NOT MENTIONED anywhere in the lease.",
     "The context does not address subletting.",
     "I don't have information about that in this document.",
     "The tenant may terminate the lease with 30 days notice."}

\* The answers is_empty_answer is called on: each stem as it is and lengthened
\* to just under the length bound, to the bound and to twice the bound.
DetectorInputs ==
    AnswerStems \cup {PadTo(stem, n) : stem \in AnswerStems,
                                      n \in {149, 150, MaxAnswerLen}}

\* The texts extract_clause_info is called on: the chunk texts, and texts with
\* the title on a later line, with a numbered section after the third line, with
\* a long first line, with no first line.
LongFirstLine ==
    "This services agreement is made on the first day of May between the co"
    \o "mpany and the commission, each of them a party.\nThey agree as follows."

ClauseInputs ==
    ChunkTexts \cup
    {ChunkConfidential,
     "  \nDEFINITIONS\nIn this agreement the terms below apply.",
     "The parties agree as follows.\nsee section 4.1 below\nSIGNED",
     "Preamble\nThe parties agree.\nNothing else is agreed.\nArticle 9 applies.",
     "Preamble\nThe parties agree.\nNothing else is agreed.\nSee 4.1 below.",
     LongFirstLine,
     "",
     "\nThe fee is due on the first day.",
     "THIS AGREEMENT IS MADE BETWEEN THE COMPANY AND THE COMMISSION ON THE FIRST OF MAY\nTerms",
     "particle 7 is not a heading\nNor is this.",
     "Version 2.\n5 items are listed",
     "  clause 3.1 payment  \nThe fee is due.",
     "as set out in article  12 of the lease",
     "Article seven\nRent"}

\* The longest list deduplicate_items is called on.
MaxItems == 3

DedupItems == {"Notice", "notice", "NOTICE", " notice ", "Payment", ""}

DedupInputs == UNION {[1..n -> DedupItems] : n \in 0..MaxItems}

\* The stripped texts _ensure_complete_sentence is called on.
SentenceInputs ==
    {Strip(raw) : raw \in RawAnswers \cup {RawSummary, RawImpact}} \cup
    {"", "a", ".", "abc.ef", "abcd.f", "ab.def", "Done!", "Is it due? Yes",
     "No punctuation here", "Hi. The tenant pays the rent on the first day",
     "The fee is due on the first day. Late payment accrues interest at",
     "The fee is due! Or is it? It is not clear whether the",
     "Wait! The fee is due on the first day of each month",
     "The fee is due on the first day of each month. Late payment"}

CallIsEmptyAnswer(meaning) ==
    /\ fn_call.fn = "none"
    /\ fn_call' = [fn     |-> "is_empty_answer",
                   args   |-> meaning,
                   result |-> is_empty_answer([meaning |-> meaning])]
    /\ UNCHANGED pipeline_vars

CallExtractClauseInfo(text) ==
    /\ fn_call.fn = "none"
    /\ fn_call' = [fn     |-> "extract_clause_info",
                   args   |-> text,
                   result |-> extract_clause_info(text)]
    /\ UNCHANGED pipeline_vars

CallDeduplicateItems(items) ==
    /\ fn_call.fn = "none"
    /\ fn_call' = [fn     |-> "deduplicate_items",
                   args   |-> items,
                   result |-> deduplicate_items(items)]
    /\ UNCHANGED pipeline_vars

CallEnsureCompleteSentence(text) ==
    /\ fn_call.fn = "none"
    /\ fn_call' = [fn     |-> "_ensure_complete_sentence",
                   args   |-> text,
                   result |-> _ensure_complete_sentence(text)]
    /\ UNCHANGED pipeline_vars

\* A query that asks what something means, and the lengths it is padded to: a
\* query leaves 1650 characters less its length to the context, 400 at least.
QImpact == "What does a late payment mean for the company?"

QueryLengths == {500, 651, 1250, 1251, 1300}

PromptQueries == {QTerminate, QImpact} \cup {PadTo(QImpact, n) : n \in QueryLengths}

\* Reranked results with the given texts, by descending combined score.
RerankedOf(texts) ==
    [i \in 1..Len(texts) |->
        [text |-> texts[i],
         metadata |-> [source |-> "case.pdf", page |-> 1, chunk_id |-> i - 1],
         original_score |-> 8750, answer_bonus |-> 0, score |-> 6125]]

PromptReranked ==
    {RerankedOf(texts) : texts \in
        {<<ChunkTermination>>,
         <<ChunkOverview, ChunkPayment>>,
         <<ChunkOverview, ChunkPayment, ChunkConfidential>>,
         <<ChunkOverview, ChunkPayment, ChunkConfidential, ChunkTermination>>}}

PromptOutputs == [answer : {RawGood, RawNotInContext}, summary : {RawSummary}, impact : {RawImpact}]

\* Steps 5 and 6 of query_clauses: the top-3 texts are joined and handed to
\* generate_structured_explanation, which sends its prompts.
CallFirstAttempt(q, reranked, out) ==
    /\ fn_call.fn = "none"
    /\ LET aggregated_context == context_of(first_chunks(reranked))
       IN  fn_call' = [fn     |-> "generate_structured_explanation",
                       args   |-> [query |-> q, reranked |-> reranked,
                                   clause_text |-> aggregated_context],
                       result |-> prompts_sent(q, aggregated_context, out)]
    /\ UNCHANGED pipeline_vars

\* The caller is done with the result of the call.
FnReturn ==
    /\ fn_call.fn # "none"
    /\ fn_call' = NoCall
    /\ UNCHANGED pipeline_vars

FnNext ==
    \/ \E meaning \in DetectorInputs : CallIsEmptyAnswer(meaning)
    \/ \E text \in ClauseInputs : CallExtractClauseInfo(text)
    \/ \E items \in DedupInputs : CallDeduplicateItems(items)
    \/ \E text \in SentenceInputs : CallEnsureCompleteSentence(text)
    \/ \E q \in PromptQueries, reranked \in PromptReranked, out \in PromptOutputs :
            CallFirstAttempt(q, reranked, out)
    \/ FnReturn

FnSpec == Init /\ [][FnNext]_vars

(***************************************************************************)
(* Properties                                                              *)
(***************************************************************************)

\* a is the first Len(a) elements of b.
IsPrefix(a, b) == Len(a) <= Len(b) /\ \A i \in 1..Len(a) : a[i] = b[i]

\* The permutations of 1..n.
Orderings(n) == {p \in [1..n -> 1..n] : \A i, j \in 1..n : i # j => p[i] # p[j]}

\* search_results[:request.top_k], what query_clauses hands to the reranker.
rerank_input == Take(search_results, top_k)

HighestSimilarity ==
    CHOOSE s \in {search_results[i].score : i \in 1..Len(search_results)} :
        \A i \in 1..Len(search_results) : s >= search_results[i].score

\* The request took neither an error path nor the low-relevance path, no
\* generation has failed, and it has returned.
AnsweredNormally ==
    pc = "done" /\ attempts # <<>> /\ "status_code" \notin DOMAIN response

\* reranked_results[i] is the reranked form of the p[i]-th input result.
CameFrom(p) ==
    \A i \in 1..Len(reranked_results) :
        /\ reranked_results[i].text = rerank_input[p[i]].text
        /\ reranked_results[i].metadata = rerank_input[p[i]].metadata
        /\ reranked_results[i].original_score = rerank_input[p[i]].score

\* C1: whenever the highest similarity among the search results of a request is
\* below 0.5, the request has reranked nothing and called the generator not once,
\* and it returns the fixed response: the 'no information' text with confidence
\* 30, no key terms and no matched terms.
C1_LowRelevanceGate ==
    (search_results # <<>> /\ HighestSimilarity < 5000) =>
        /\ pc = "done"
        /\ reranked_results = <<>>
        /\ attempts = <<>>
        /\ ai_explanation = None
        /\ response.explanation.meaning = NoInformationText
        /\ response.explanation.confidence = 30
        /\ response.explanation.keyTerms = <<>>
        /\ response.relevance.matchedTerms = <<>>

C1_Witness ==
    /\ pc = "done"
    /\ search_results # <<>>
    /\ HighestSimilarity < 5000
    /\ response.explanation.confidence = 30

\* C2: a request calls generate_structured_explanation at most three times, the
\* first call with the top-3 context; the single-chunk call is the third one, it
\* comes right after the top-2 call, and the answer of that top-2 call was
\* flagged empty.
C2_RetryBound ==
    /\ Len(attempts) <= 3
    /\ \A i \in 1..Len(attempts) :
          /\ attempts[i].stage = "first" <=> i = 1
          /\ attempts[i].stage = "narrowed" => i = 2
          /\ attempts[i].stage = "single" =>
                /\ i = 3
                /\ attempts[2].stage = "narrowed"
                /\ is_empty_answer(attempts[2].explanation)

C2_Witness ==
    /\ Len(attempts) = 3
    /\ attempts[3].stage = "single"
    /\ is_empty_answer(attempts[2].explanation)

\* C3: when a request with at least two reranked results returns the 'no
\* information' text as its answer, both retries (top-2 and single-chunk) were
\* executed before.
C3_NonAnswerOnlyAfterRetries ==
    (/\ AnsweredNormally
     /\ Len(reranked_results) >= 2
     /\ response.explanation.meaning = NoInformationText)
        => /\ Len(attempts) = 3
           /\ attempts[2].stage = "narrowed"
           /\ attempts[3].stage = "single"

\* C4: the chunks of every generation call are the first ones of the reranked
\* list, three at most for the first call, two for the second, one for the third;
\* the chunks of a call are a prefix of those of the call before it, and its
\* context is not longer.
C4_ContextNarrows ==
    \A i \in 1..Len(attempts) :
        /\ IsPrefix(attempts[i].chunks, reranked_results)
        /\ Len(attempts[i].chunks) = Min(4 - i, Len(reranked_results))
        /\ attempts[i].clause_text = context_of(attempts[i].chunks)
        /\ i > 1 =>
              /\ IsPrefix(attempts[i].chunks, attempts[i - 1].chunks)
              /\ Len(attempts[i].clause_text) <= Len(attempts[i - 1].clause_text)

C4_Witness ==
    /\ Len(attempts) = 3
    /\ Len(reranked_results) = 3
    /\ Len(attempts[1].chunks) = 3
    /\ Len(attempts[2].chunks) = 2
    /\ Len(attempts[3].chunks) = 1

\* C5: the reranked list has as many results as the list given to the reranker
\* and is a permutation of it, and the score of every reranked result is 0.7 times
\* its similarity plus 0.3 times the answerability bonus of its text for the query.
C5_RerankPermutationAndScore ==
    reranked_results # <<>> =>
        /\ Len(reranked_results) = Len(rerank_input)
        /\ \E p \in Orderings(Len(rerank_input)) : CameFrom(p)
        /\ \A i \in 1..Len(reranked_results) :
              /\ reranked_results[i].answer_bonus =
                    AnswerLikelihoodTable[<<reranked_results[i].text, query>>]
              /\ 10 * reranked_results[i].score =
                    7 * reranked_results[i].original_score
                        + 3 * reranked_results[i].answer_bonus

C5_Witness ==
    /\ Len(reranked_results) = 3
    /\ reranked_results[1].text # rerank_input[1].text
    /\ reranked_results[1].answer_bonus > 0

\* C6: the reranked list is in descending order of combined score, and results
\* of equal combined score are in the order the similarity search gave them.
C6_DescendingAndStable ==
    reranked_results # <<>> =>
        /\ \A i \in 1..(Len(reranked_results) - 1) :
              reranked_results[i].score >= reranked_results[i + 1].score
        /\ \E p \in Orderings(Len(reranked_results)) :
              /\ Len(rerank_input) = Len(reranked_results)
              /\ CameFrom(p)
              /\ \A i, j \in 1..Len(reranked_results) :
                    (i < j /\ reranked_results[i].score = reranked_results[j].score)
                        => p[i] < p[j]

\* Two different chunks tie, and another result has been moved ahead of its place.
C6_Witness ==
    /\ Len(reranked_results) = 3
    /\ \E i, j \in 1..3 :
          /\ i < j
          /\ reranked_results[i].score = reranked_results[j].score
          /\ reranked_results[i].text # reranked_results[j].text

\* C7: the answerability bonus of every reranked result lies in [0, 1].
C7_BonusInUnitInterval ==
    \A i \in 1..Len(reranked_results) :
        reranked_results[i].answer_bonus \in 0..10000

\* C8: on the path that is neither the error path nor the low-relevance path, the
\* confidence of every generated explanation, and so of the response whichever
\* attempt produced it, is an integer from 35 to 95.
C8_ConfidenceRange ==
    /\ \A i \in 1..Len(attempts) : attempts[i].explanation.confidence \in 35..95
    /\ attempts # <<>> => ai_explanation = attempts[Len(attempts)].explanation
    /\ AnsweredNormally =>
          /\ response.explanation = attempts[Len(attempts)].explanation
          /\ response.explanation.confidence \in 35..95

\* An end of the range is returned for a score the rules put outside the range.
C8_Witness ==
    /\ AnsweredNormally
    /\ response.explanation.confidence \in {35, 95}
    /\ confidence_rules(query, attempts[Len(attempts)].clause_text,
                        response.explanation.meaning).score \notin 35..95

\* C9: whenever the answer contains one of the uncertainty phrases, the
\* confidence returned with it is at most 55.
C9_UncertaintyCap ==
    \A i \in 1..Len(attempts) :
        AnyIn({"not contain", "does not specify", "unclear", "not mentioned",
               "not provided", "no information"},
              Lower(attempts[i].explanation.meaning))
            => attempts[i].explanation.confidence <= 55

\* For each answer text of the model: whether it is shorter than 150 characters
\* and contains one of the thirteen phrases of the description, and one of the
\* nine phrases of the detector.
ShortWithPhrase ==
    Tabulated([meaning \in MeaningTexts |->
        [thirteen |->
            /\ Len(meaning) < 150
            /\ AnyIn({"i don't have", "not mentioned", "not specified", "not provided",
                      "not contain", "does not contain", "no information", "cannot find",
                      "not found", "not available", "context does not",
                      "the context does not", "not in the context"}, Lower(meaning)),
         nine |->
            /\ Len(meaning) < 150
            /\ AnyIn({"does not contain", "not contain information",
                      "context does not", "does not address", "not specified",
                      "not mentioned", "no information", "[topic]",
                      "[specific aspect"}, Lower(meaning))]])

\* C10, as the specification states it: the detector of the retry logic flags an
\* answer exactly when it is shorter than 150 characters and contains one of the
\* thirteen phrases the specification lists.
C10_DetectorAsStated ==
    \A i \in 1..Len(attempts) :
        empty_answer(attempts[i].explanation) <=>
            ShortWithPhrase[attempts[i].explanation.meaning].thirteen

\* C10, amended: the detector of the retry logic flags an answer, and the retry
\* logic goes on to the next narrower attempt when there are several results,
\* exactly when the answer is shorter than 150 characters and contains one of
\* the nine phrases of is_empty_answer.
C10_Detector ==
    \A i \in 1..Len(attempts) :
        LET flagged == ShortWithPhrase[attempts[i].explanation.meaning].nine
        IN  /\ empty_answer(attempts[i].explanation) <=> flagged
            /\ (i < 3 /\ Len(reranked_results) > 1
                    /\ (i < Len(attempts) \/ pc = "respond" \/ AnsweredNormally))
                  => (flagged <=> i < Len(attempts))

\* An answer is flagged, and an answer of 150 characters or more with one of the
\* phrases is not.
C10_Witness ==
    /\ Len(attempts) >= 2
    /\ empty_answer(attempts[1].explanation)
    /\ ~empty_answer(attempts[2].explanation)
    /\ Len(attempts[2].explanation.meaning) >= 150
    /\ AnyIn({"not specified", "not mentioned"}, Lower(attempts[2].explanation.meaning))

\* C11: the empty-answer detector never flags an answer of 150 characters or
\* more, and flags every answer shorter than 150 characters that contains
\* 'not mentioned' in any letter case: "Not mentioned in this document." is
\* flagged, an answer of 300 characters containing 'not mentioned' is not.
C11_ShortAnswersOnly ==
    fn_call.fn = "is_empty_answer" =>
        LET answer == fn_call.args
            mentions == In("not mentioned", Lower(answer))
        IN  /\ Len(answer) >= 150 => fn_call.result = FALSE
            /\ Len(answer) < 150 /\ mentions => fn_call.result = TRUE
            /\ answer = "Not mentioned in this document." => fn_call.result = TRUE

C11_Witness ==
    /\ fn_call.fn = "is_empty_answer"
    /\ Len(fn_call.args) = MaxAnswerLen
    /\ In("not mentioned", Lower(fn_call.args))
    /\ fn_call.result = FALSE

\* C12: a query served while the index file or the metadata file is missing is
\* answered with an error response whose clause, explanation and relevance
\* are all null, and the request has made no embedding, search, reranking or
\* generation call: loading the index is all it did.
C12_NoIndexError ==
    pc = "done" /\ (index_file = NoFile \/ meta_file = NoFile) =>
        /\ "error" \in DOMAIN response
        /\ response.clause = None
        /\ response.explanation = None
        /\ response.relevance = None
        /\ calls = <<"load_index">>
        /\ search_results = <<>> /\ reranked_results = <<>> /\ attempts = <<>>

C12_Witness ==
    /\ pc = "done"
    /\ index_file = NoFile
    /\ query = QTerminate
    /\ top_k = MaxTopK
    /\ "error" \in DOMAIN response

\* C13: when the search of an existing index returns no result at all, the
\* query is answered with an error response whose clause, explanation and
\* relevance are all null, and neither reranking nor generation has run.
C13_NoResultsError ==
    pc = "done" /\ index_file # NoFile /\ meta_file # NoFile
                /\ "raise" \notin {calls[i] : i \in DOMAIN calls}
                /\ Len(search_results) = 0 =>
        /\ "error" \in DOMAIN response
        /\ response.clause = None
        /\ response.explanation = None
        /\ response.relevance = None
        /\ calls = <<"load_index", "encode", "search">>
        /\ reranked_results = <<>> /\ attempts = <<>>

C13_Witness ==
    /\ pc = "done"
    /\ index_file # NoFile
    /\ index_file = CaseDoc
    /\ top_k = 0
    /\ calls = <<"load_index", "encode", "search">>
    /\ search_results = <<>>
    /\ "error" \in DOMAIN response

\* C14: in every response that is not an error response, on the low-relevance
\* path and on the normal path, relevance.score is an integer from 0 to 100.
C14_RelevanceScoreRange ==
    pc = "done" /\ "error" \notin DOMAIN response /\ "status_code" \notin DOMAIN response
        => response.relevance.score \in 0..100

\* C15: the last retry generates from the text of one chunk alone, and that
\* chunk has the highest answer bonus of the reranked results.
C15_SingleRetryMostAnswerable ==
    \A i \in 1..Len(attempts) :
        attempts[i].stage = "single" =>
            \E j \in 1..Len(reranked_results) :
                /\ attempts[i].clause_text = reranked_results[j].text
                /\ \A l \in 1..Len(reranked_results) :
                        reranked_results[l].answer_bonus <= reranked_results[j].answer_bonus

\* C16, as described: with the index of the one chunk "TERMINATION. Either party
\* may terminate this agreement with 30 days notice." and a query of similarity
\* 0.5 or more, the title of the clause in the response is "TERMINATION." and
\* the key terms include "Termination".
C16_TerminationScenarioAsStated ==
    AnsweredNormally /\ index_file # NoFile /\ index_file = TerminationDoc
                     /\ top_k >= 1 /\ HighestSimilarity >= 5000 =>
        /\ response.clause.title = "TERMINATION."
        /\ InList("Termination", response.explanation.keyTerms)

\* C16, amended: in that scenario the title of the clause is the whole chunk,
\* which is one line, in upper case, and the key terms include "Termination".
C16_TerminationScenario ==
    AnsweredNormally /\ index_file # NoFile /\ index_file = TerminationDoc
                     /\ top_k >= 1 /\ HighestSimilarity >= 5000 =>
        /\ response.clause.title =
              "TERMINATION. EITHER PARTY MAY TERMINATE THIS AGREEMENT WITH 30 DAYS NOTICE."
        /\ response.clause.content = ChunkTermination
        /\ InList("Termination", response.explanation.keyTerms)

C16_Witness ==
    /\ AnsweredNormally
    /\ index_file # NoFile
    /\ index_file = TerminationDoc
    /\ query = QTerminate
    /\ top_k = 1
    /\ HighestSimilarity = 5000
    /\ response.explanation.keyTerms = <<"Termination", "Agreement", "Party", "Notice">>

\* The first positions of the keys of a list of items, in increasing order,
\* and the items at them.
FirstPositions(items, key(_)) ==
    {i \in 1..Len(items) : \A j \in 1..(i - 1) : key(items[j]) # key(items[i])}

ItemsAt(items, positions) ==
    [k \in 1..Cardinality(positions) |->
        items[CHOOSE p \in positions : Cardinality({q \in positions : q <= p}) = k]]

\* C17, as described: the title is (a) the first of the first three lines that
\* is all upper case with at most 10 words, else (b) the first line with a
\* numbered section or 'Article N', as it is written, else (c) the first line
\* in upper case, cut to 100 characters and an ellipsis when it is longer.
C17_TitlePriorityAsStated ==
    fn_call.fn = "extract_clause_info" /\ fn_call.args # "" =>
        LET lines    == SplitOn(fn_call.args, "\n")
            caps     == {i \in 1..Min(3, Len(lines)) : is_caps_title(Strip(lines[i]))}
            numbered == {i \in 1..Len(lines) : has_section_number(lines[i])}
            first    == Strip(lines[1])
        IN  fn_call.result.title =
                IF caps # {} THEN Strip(lines[Least(caps)])
                ELSE IF numbered # {} THEN Strip(lines[Least(numbered)])
                ELSE IF Len(first) > 100 THEN Upper(SubSeq(first, 1, 100)) \o "..."
                ELSE Upper(first)

\* C17, amended: the title is (a) the first of the first three lines that,
\* stripped, is all upper case with at most 10 words; else (b) the first of the
\* first three lines that holds digits.digits or the word Article and a number,
\* stripped and in upper case; else (c) the first line, stripped, cut to 100
\* characters and "..." when it is longer, in upper case, or "RETRIEVED CLAUSE"
\* when the first line is blank.
C17_TitlePriority ==
    fn_call.fn = "extract_clause_info" =>
        LET lines    == SplitOn(fn_call.args, "\n")
            caps     == {i \in 1..Min(3, Len(lines)) : is_caps_title(Strip(lines[i]))}
            numbered == {i \in 1..Min(3, Len(lines)) : has_section_number(lines[i])}
            first    == Strip(lines[1])
        IN  fn_call.result.title =
                IF caps # {} THEN Strip(lines[Least(caps)])
                ELSE IF numbered # {} THEN Upper(Strip(lines[Least(numbered)]))
                ELSE IF first = "" THEN "RETRIEVED CLAUSE"
                ELSE IF Len(first) > 100 THEN Upper(SubSeq(first, 1, 100)) \o "..."
                ELSE Upper(first)

\* A section number on the fourth line only: the title is the first line.
C17_Witness ==
    /\ fn_call.fn = "extract_clause_info"
    /\ Len(SplitOn(fn_call.args, "\n")) = 4
    /\ has_section_number(SplitOn(fn_call.args, "\n")[4])
    /\ fn_call.result.title = "PREAMBLE"

\* C18, as described: deduplicate_items keeps, in the order of the list, exactly
\* the first occurrence of each item under case-insensitive comparison, and
\* applying it twice gives what applying it once gives.
C18_FirstOccurrencesAsStated ==
    fn_call.fn = "deduplicate_items" =>
        /\ fn_call.result = ItemsAt(fn_call.args, FirstPositions(fn_call.args, Lower))
        /\ deduplicate_items(fn_call.result) = fn_call.result

\* C18, amended: deduplicate_items keeps, in the order of the list, exactly the
\* first occurrence of each item that is not blank, two items being the same
\* when they are equal once lower-cased and stripped of surrounding spaces;
\* applying it twice gives what applying it once gives.
C18_FirstOccurrences ==
    fn_call.fn = "deduplicate_items" =>
        LET Key(item) == Strip(Lower(item))
            kept == {i \in FirstPositions(fn_call.args, Key) : Key(fn_call.args[i]) # ""}
        IN  /\ fn_call.result = ItemsAt(fn_call.args, kept)
            /\ deduplicate_items(fn_call.result) = fn_call.result

C18_Witness ==
    /\ fn_call.fn = "deduplicate_items"
    /\ fn_call.args = <<"Notice", "notice", "NOTICE">>
    /\ fn_call.result = <<"Notice">>

\* C19: the key terms of every response are at most 6, each of them is in
\* title case, and no two of them are equal under case-insensitive comparison.
C19_KeyTermsDistinct ==
    pc = "done" /\ "error" \notin DOMAIN response /\ "status_code" \notin DOMAIN response =>
        LET keyTerms == response.explanation.keyTerms
        IN  /\ Len(keyTerms) <= 6
            /\ \A i \in 1..Len(keyTerms) : keyTerms[i] = Title(keyTerms[i])
            /\ \A i, j \in 1..Len(keyTerms) :
                    i # j => Lower(keyTerms[i]) # Lower(keyTerms[j])

\* C20: for a text that is not empty, _ensure_complete_sentence returns a text
\* that ends with '.', '!' or '?': the text itself when it ends so, else its
\* prefix up to the last such mark when the 0-based index of that mark is more
\* than half the length of the text, else the text and a period; and applying
\* it to its result changes nothing.
C20_CompleteSentence ==
    fn_call.fn = "_ensure_complete_sentence" /\ fn_call.args # "" =>
        LET text   == fn_call.args
            result == fn_call.result
            marks  == {i \in 1..Len(text) : Ch(text, i) \in {".", "!", "?"}}
        IN  /\ Ch(result, Len(result)) \in {".", "!", "?"}
            /\ result = IF Len(text) \in marks THEN text
                        ELSE IF marks # {} /\ 2 * (Greatest(marks) - 1) > Len(text)
                        THEN SubSeq(text, 1, Greatest(marks))
                        ELSE text \o "."
            /\ _ensure_complete_sentence(result) = result

\* A text whose last mark is just before its middle gets a period appended.
C20_Witness ==
    /\ fn_call.fn = "_ensure_complete_sentence"
    /\ fn_call.args = "abc.ef"
    /\ fn_call.result = "abc.ef."

\* C25: a request whose first generated answer is not flagged empty, or whose
\* reranked results are fewer than 2, makes exactly one generation attempt, and
\* the explanation of that attempt is the one it returns.
C25_FirstAttemptFinal ==
    (attempts # <<>>
        /\ (~empty_answer(attempts[1].explanation) \/ Len(reranked_results) < 2)) =>
        /\ Len(attempts) = 1
        /\ pc \in {"respond", "done"}
        /\ ai_explanation = attempts[1].explanation
        /\ pc = "done" => response.explanation = attempts[1].explanation

\* A flagged answer from the only reranked result is returned as it is.
C25_Witness ==
    /\ pc = "done"
    /\ Len(reranked_results) = 1
    /\ Len(attempts) = 1
    /\ empty_answer(attempts[1].explanation)
    /\ response.explanation = attempts[1].explanation

\* C27: whenever the answer of a response is the 'no information' sentence the
\* generator substitutes for an out-of-context answer, the confidence of that
\* response is at most 55.
C27_NonAnswerConfidence ==
    (AnsweredNormally /\ response.explanation.meaning = NoInformationText) =>
        response.explanation.confidence <= 55

\* C30: a search returns no more results than the index holds chunks, so the
\* results the retry logic counts never exceed the chunks of the index.
C30_NoPaddedResults ==
    (pc # "idle" /\ index_file # NoFile) =>
        /\ Len(search_results) <= Len(index_file)
        /\ Len(reranked_results) <= Len(index_file)

\* The prompts of a call of generate_structured_explanation, and the budget
\* max(400, 2000 - (350 + len(query))) of its query.
PromptsOfCall == fn_call.result

MaxCharsOfCall == Max(400, 2000 - (350 + Len(fn_call.args.query)))

\* The texts of the first three reranked results with a blank line in between.
JoinedTopThree ==
    LET r == fn_call.args.reranked
    IN  IF Len(r) = 1 THEN r[1].text
        ELSE IF Len(r) = 2 THEN r[1].text \o "\n\n" \o r[2].text
        ELSE r[1].text \o "\n\n" \o r[2].text \o "\n\n" \o r[3].text

\* C21: the context in the main prompt of the first attempt is the texts of the
\* top 3 reranked results joined by a blank line, cut to its first maxChars
\* characters, where maxChars = max(400, 2000 - (350 + len(query))) is never
\* below 400.
C21_MainPromptContext ==
    fn_call.fn = "generate_structured_explanation" =>
        /\ MaxCharsOfCall >= 400
        /\ PromptsOfCall[1].prompt = "main"
        /\ PromptsOfCall[1].context =
                SubSeq(JoinedTopThree, 1, Min(Len(JoinedTopThree), MaxCharsOfCall))

\* A query of 1300 characters leaves the floor of 400 characters to a context
\* of 1157.
C21_Witness ==
    /\ fn_call.fn = "generate_structured_explanation"
    /\ Len(fn_call.args.query) = 1300
    /\ Len(fn_call.args.reranked) = 4
    /\ Len(JoinedTopThree) = 1157
    /\ Len(PromptsOfCall[1].context) = 400

\* C29, as described: every prompt of a generation attempt embeds at most
\* maxChars = max(400, 2000 - (350 + len(query))) characters of context.
C29_PromptContextsAsStated ==
    fn_call.fn = "generate_structured_explanation" =>
        \A i \in 1..Len(PromptsOfCall) : Len(PromptsOfCall[i].context) <= MaxCharsOfCall

\* C29, amended: the main prompt and the summary prompt of a generation attempt
\* embed at most maxChars characters of context; the impact prompt embeds the
\* first 1000 characters of the context, whatever maxChars is.
C29_PromptContexts ==
    fn_call.fn = "generate_structured_explanation" =>
        \A i \in 1..Len(PromptsOfCall) :
            IF PromptsOfCall[i].prompt = "impact"
            THEN PromptsOfCall[i].context =
                    SubSeq(fn_call.args.clause_text, 1, Min(1000, Len(fn_call.args.clause_text)))
            ELSE Len(PromptsOfCall[i].context) <= MaxCharsOfCall

\* All three prompts are sent, the first two with 999 characters of context and
\* the impact prompt with 1000.
C29_Witness ==
    /\ fn_call.fn = "generate_structured_explanation"
    /\ Len(fn_call.args.query) = 651
    /\ Len(PromptsOfCall) = 3
    /\ Len(PromptsOfCall[1].context) = 999
    /\ Len(PromptsOfCall[2].context) = 999
    /\ PromptsOfCall[3].prompt = "impact"
    /\ Len(PromptsOfCall[3].context) = 1000

\* C22: the process loads each model at most once: a request loads no model
\* that a request before it has loaded, and loads no model twice.
C22_ModelsLoadedOnce ==
    \A i \in 1..Len(loads) :
        /\ loads[i] \notin loaded
        /\ \A j \in 1..Len(loads) : i # j => loads[i] # loads[j]

GenerationFailed ==
    /\ Len(calls) >= 2
    /\ calls[Len(calls)] = "raise"
    /\ calls[Len(calls) - 1] = "generate"

\* C24: when the generation fails in an attempt, the first or a retry, the
\* request is over and is answered with HTTP 500 and neither clause nor
\* explanation; and an attempt was followed by another one only when its answer
\* was flagged empty.
C24_GenerationFailurePropagates ==
    /\ GenerationFailed =>
            /\ pc = "done"
            /\ "status_code" \in DOMAIN response
            /\ response.status_code = 500
            /\ response.clause = None
            /\ response.explanation = None
    /\ \A i \in 1..(Len(attempts) - 1) : empty_answer(attempts[i].explanation)

\* The generation fails in the second retry, after two flagged answers.
C24_Witness ==
    /\ GenerationFailed
    /\ Len(attempts) = 2
    /\ response = internal_error_response

\* C26: a query that has searched has loaded exactly the chunks of the last
\* build of the index, and each of its search results carries the text and the
\* metadata of one of these chunks and a similarity as its score.
C26_IndexRoundTrip ==
    (pc # "idle" /\ search_results # <<>>) =>
        /\ meta_file = index_file
        /\ \A i \in 1..Len(search_results) :
                /\ search_results[i].score \in SimValues
                /\ \E d \in 1..Len(index_file) :
                        /\ search_results[i].text = index_file[d].text
                        /\ search_results[i].metadata = index_file[d].metadata

\* C28: when an upload has succeeded, the index holds exactly the chunks of the
\* PDF that was uploaded, and chunks_created is the number of these chunks.
C28_IndexIsLastUpload ==
    (upload.pc = "done" /\ upload.status_code = 200) =>
        /\ index_file = chunks_of(upload.pdf_file)
        /\ meta_file = chunks_of(upload.pdf_file)
        /\ upload.chunks_created = Len(chunks_of(upload.pdf_file))

====
